---- MODULE Spec2Model ----
(***************************************************************************)
(* Stopwatch on a 4-digit multiplexed 7-segment display driven through a   *)
(* 74HC595 shift-register chain (src/main.cpp), and its variant with a     *)
(* voltage read-out and decimal point (src/Task2/main.cpp).                *)
(***************************************************************************)
EXTENDS Integers, Sequences, FiniteSets, TLC

VARIABLES
    variant,      \* "main" (src/main.cpp) or "Task2" (src/Task2/main.cpp)
    seconds,      \* volatile int seconds
    minutes,      \* volatile int minutes
    ticks,        \* number of timer callbacks run so far in the run
    s1,           \* level of the reset button input (1 released, 0 pressed)
    pc,           \* position of the main thread
    stack,        \* return labels of the calls in progress
    rdMinutes,    \* value read from minutes for the argument, -1 before the read
    rdSeconds,    \* value read from seconds for the argument, -1 before the read
    number,       \* displayNumber: parameter number
    showDecimal,  \* displayNumber: parameter showDecimal (Task2)
    decimalPos,   \* displayNumber: parameter decimalPos (Task2)
    i,            \* displayNumber: loop index i
    segments,     \* writeToShiftRegister: parameter segments
    digit,        \* writeToShiftRegister: parameter digit
    value,        \* shiftOutMSBFirst: parameter value
    bit,          \* shiftOutMSBFirst: loop index i
    hw,           \* the three output lines, the register behind them, and
                  \* what an observer of the lines has recorded
    calls,        \* the writeToShiftRegister calls of the current displayNumber
    tickAt,       \* where the main thread was when the timer callback last ran
                  \* during the current writeToShiftRegister call, else "none"
    obs,          \* what an observer of the main loop has recorded
    sinceTick,    \* ms slept since the timer callback last ran, -1 when the
                  \* timing of the callback is left open
    s3,           \* Task2: level of the mode button input (0 pressed)
    voltage,      \* Task2: float voltage, in millivolts
    minVoltage,   \* Task2: volatile float minVoltage, in millivolts
    maxVoltage,   \* Task2: volatile float maxVoltage, in millivolts
    twin          \* the counters of the Task2 callback when it is run side by
                  \* side with the callback of src/main.cpp

vars == <<variant, seconds, minutes, ticks, s1, pc, stack, rdMinutes, rdSeconds,
          number, showDecimal, decimalPos, i, segments, digit, value, bit, hw,
          calls, tickAt, obs, sinceTick, s3, voltage, minVoltage, maxVoltage,
          twin>>

(***************************************************************************)
(* Bounds of the model.                                                    *)
(***************************************************************************)
\* ticks applied by the stopwatch harness (6000 is the wrap of 99:59)
MaxTickCount == 6001
\* timer callbacks in one run of the main loop
MaxTicks == 3
\* displayNumber is tried on -NegSpan .. MaxNumber
NegSpan == 10
MaxNumber == 12345
\* writeToShiftRegister is tried on digit bytes 0 .. MaxDigitByte
MaxDigitByte == 15

(***************************************************************************)
(* Program constants.                                                      *)
(***************************************************************************)
DwellMs == 2
DebounceMs == 200
DigitCount == 4
TopBit == 7
SecondsPerMinute == 60
MinutesWrap == 100
DecimalPointMask == 128

(***************************************************************************)
(* C++ integer arithmetic.                                                 *)
(***************************************************************************)
\* int / int truncates toward zero
CDiv(a, b) == IF a >= 0 THEN a \div b ELSE -((-a) \div b)
\* int % int has the sign of the dividend
CMod(a, b) == a - b * CDiv(a, b)
\* (value & (1 << k)) ? 1 : 0 for a value in 0..255
BitTest(v, k) == (v \div (2 ^ k)) % 2
\* static_cast<uint8_t>(~x): ~x is the int -x-1, the cast reduces it mod 256
ComplementU8(x) == (-x - 1) % 256
\* a & b on 8-bit operands, bit by bit
RECURSIVE AndBits(_, _, _)
AndBits(a, b, k) ==
    IF k < 0 THEN 0
    ELSE (IF BitTest(a, k) = 1 /\ BitTest(b, k) = 1 THEN 2 ^ k ELSE 0)
         + AndBits(a, b, k - 1)

(***************************************************************************)
(* Tables.                                                                 *)
(***************************************************************************)
\* the table without the complement (the common-cathode codes)
digitPatternUninverted(d) ==
    <<63, 6, 91, 79, 102, 109, 125, 7, 127, 111>>[d + 1]
\* digitPattern[d], d = 0..9: ~0x3F, ~0x06, ~0x5B, ~0x4F, ~0x66, ~0x6D, ~0x7D,
\* ~0x07, ~0x7F, ~0x6F, each cast to uint8_t
digitPattern(d) ==
    ComplementU8(<<63, 6, 91, 79, 102, 109, 125, 7, 127, 111>>[d + 1])
\* the positions numbered instead of one bit each
digitPosNumbered(k) == <<1, 2, 3, 4>>[k + 1]
\* digitPos[k], k = 0..3: 0x01, 0x02, 0x04, 0x08
digitPos(k) == <<1, 2, 4, 8>>[k + 1]

(***************************************************************************)
(* The timer callback.                                                     *)
(***************************************************************************)
\* the wrap of minutes tested one too late
updateTimeLateWrap(s, m) ==
    IF s + 1 >= SecondsPerMinute
    THEN [seconds |-> 0, minutes |-> IF m + 1 > MinutesWrap THEN 0 ELSE m + 1]
    ELSE [seconds |-> s + 1, minutes |-> m]
\* src/main.cpp: seconds++; at 60 seconds = 0, minutes++, at 100 minutes = 0
updateTime(s, m) ==
    IF s + 1 >= SecondsPerMinute
    THEN [seconds |-> 0, minutes |-> IF m + 1 >= MinutesWrap THEN 0 ELSE m + 1]
    ELSE [seconds |-> s + 1, minutes |-> m]
\* the minutes never wrapped
updateTimeTask2NoWrap(s, m) ==
    IF s + 1 >= SecondsPerMinute
    THEN [seconds |-> 0, minutes |-> m + 1]
    ELSE [seconds |-> s + 1, minutes |-> m]
\* src/Task2/main.cpp: seconds++; at 60 seconds = 0, minutes = (minutes + 1) % 100
updateTimeTask2(s, m) ==
    IF s + 1 >= SecondsPerMinute
    THEN [seconds |-> 0, minutes |-> CMod(m + 1, MinutesWrap)]
    ELSE [seconds |-> s + 1, minutes |-> m]

(***************************************************************************)
(* The output lines and the 74HC595 chain behind them.  SH_CP shifts the   *)
(* data line into the chain on a rising clock edge; ST_CP copies the chain *)
(* to the parallel outputs on a rising latch edge.  The chain is two 8-bit *)
(* registers long: the first byte sent ends in the high byte.              *)
(***************************************************************************)
ChainModulus == 65536

\* the position k whose digitPos[k] is the digit-select byte sel, -1 if none
PositionOf(sel) ==
    IF \E k \in 0..(DigitCount - 1) : digitPos(k) = sel
    THEN CHOOSE k \in 0..(DigitCount - 1) : digitPos(k) = sel
    ELSE -1

\* lines low after construction of the DigitalOut objects, register cleared
HwInit ==
    [latchPin |-> 0, clockPin |-> 0, dataPin |-> 0,
     chain |-> 0, outputs |-> 0,
     prevOutputs |-> 0,                        \* the outputs before the last latching
     events |-> <<>>,                          \* line writes of the current call
     heldFor |-> 0,                            \* ms the latched frame has been shown
     lastHeld |-> -1,                          \* ms the frame before it was shown
     sinceLatch |-> [k \in 0..(DigitCount - 1) |-> -1],
                                               \* ms since position k was latched
     period |-> -1,                            \* ms between the last two latchings
                                               \* of the position latched last
     pulses |-> 0,                             \* rising clock edges,
     latches |-> 0,                            \* rising latch edges and
     sleeps |-> 0,                             \* sleeps of the current sweep
     sinceSweep |-> -1,                        \* ms since the current sweep began
     sweepGap |-> -1]                          \* ms between the beginnings of the
                                               \* last two sweeps

\* dataPin = v
SetData(h, v) ==
    [h EXCEPT !.dataPin = v, !.events = Append(@, <<"data", v>>)]

\* clockPin = v; a rising edge shifts dataPin into the chain
SetClock(h, v) ==
    [h EXCEPT !.clockPin = v,
              !.chain = IF h.clockPin = 0 /\ v = 1
                        THEN (2 * h.chain + h.dataPin) % ChainModulus
                        ELSE @,
              !.pulses = IF h.clockPin = 0 /\ v = 1 THEN @ + 1 ELSE @,
              !.events = Append(@, <<"clock", v>>)]

\* latchPin = v; a rising edge copies the chain to the outputs
SetLatch(h, v) ==
    LET rising == h.latchPin = 0 /\ v = 1
        pos == PositionOf(h.chain % 256)
    IN  [h EXCEPT !.latchPin = v,
                  !.outputs = IF rising THEN h.chain ELSE @,
                  !.prevOutputs = IF rising THEN h.outputs ELSE @,
                  !.events = Append(@, <<"latch", v>>),
                  !.lastHeld = IF rising THEN h.heldFor ELSE @,
                  !.heldFor = IF rising THEN 0 ELSE @,
                  !.latches = IF rising THEN @ + 1 ELSE @,
                  !.period = IF rising /\ pos >= 0 THEN h.sinceLatch[pos] ELSE @,
                  !.sinceLatch = IF rising /\ pos >= 0
                                 THEN [@ EXCEPT ![pos] = 0] ELSE @]

\* ThisThread::sleep_for(ms): the lines keep their levels for ms milliseconds
Sleep(h, ms) ==
    [h EXCEPT !.heldFor = @ + ms,
              !.sleeps = @ + 1,
              !.sinceSweep = IF @ >= 0 THEN @ + ms ELSE @,
              !.sinceLatch = [k \in 0..(DigitCount - 1) |->
                                 IF @[k] >= 0 THEN @[k] + ms ELSE @[k]]]

\* a new call starts a new record of line writes
NewCall(h) == [h EXCEPT !.events = <<>>]

\* a new sweep starts new counts of edges and sleeps
NewSweep(h) ==
    [h EXCEPT !.pulses = 0, !.latches = 0, !.sleeps = 0,
              !.sweepGap = h.sinceSweep, !.sinceSweep = 0]

(***************************************************************************)
(* The clock of the Ticker, the observer of the main loop, and the state   *)
(* of Task2 that src/main.cpp does not have.                               *)
(***************************************************************************)
\* timerTicker.attach(&updateTime, 1.0f): the period of the callback in ms
TickPeriodMs == 1000

\* ms slept since the last callback, after a sleep of ms more; the callback
\* is due when the count reaches the period, and -1 leaves its timing open
Elapse(t, ms) ==
    IF t = -1 THEN -1
    ELSE IF t + ms >= TickPeriodMs THEN TickPeriodMs ELSE t + ms

\* the observer counts sweeps and polls up to this many
ObsCap == 2

UpToCap(n) == IF n >= ObsCap THEN ObsCap ELSE n

ObsInit ==
    [during |-> {},        \* the counter states <<minutes, seconds>> since the
                           \* first read of the argument under evaluation
     torn |-> FALSE,       \* the argument of the current sweep was none of them
     prevTorn |-> FALSE,   \* the same for the sweep before
     sweeps |-> 0,         \* sweeps begun and
     released |-> 0,       \* polls that read "released" since the last debounce
     locked |-> FALSE]     \* a debounce sleep has happened

\* a read of one counter for the argument, the counters being (m, s)
ObsRead(o, m, s) == [o EXCEPT !.during = @ \cup {<<m, s>>}]

\* a callback that leaves the counters at (m, s)
ObsTick(o, m, s) ==
    [o EXCEPT !.during = IF @ = {} THEN @ ELSE @ \cup {<<m, s>>}]

\* displayNumber is entered with the argument made of the reads rm and rs
ObsCall(o, rm, rs) ==
    [o EXCEPT !.torn = <<rm, rs>> \notin o.during,
              !.prevTorn = o.torn,
              !.during = {},
              !.sweeps = UpToCap(@ + 1)]

\* displayNumber is entered with the voltage
ObsCallVoltage(o) ==
    [o EXCEPT !.torn = FALSE, !.prevTorn = o.torn, !.during = {},
              !.sweeps = UpToCap(@ + 1)]

\* if (!s1) has read the level of the button
ObsPoll(o, level) ==
    [o EXCEPT !.released = IF level = 1 THEN UpToCap(@ + 1) ELSE @]

\* the debounce sleep
ObsDebounce(o) == [o EXCEPT !.sweeps = 0, !.released = 0, !.locked = TRUE]

\* Task2: pot.read() * 3.3f at full scale, in millivolts
FullScaleMv == 3300

\* Task2: the readings of the potentiometer tried, in millivolts
PotReadings == {0, 2457, FullScaleMv}

\* the voltage taken in millivolts
VoltageInMillivolts(mv) == mv
\* Task2: static_cast<int>(voltage * 100), voltage in volts
VoltageScaled(mv) == CDiv(mv, 10)

\* the state outside the stopwatch, display and reset button at the start:
\* nothing observed, callback timing open, mode button released, no voltage
\* read, minVoltage = 3.3f, maxVoltage = 0.0f
RestInit ==
    /\ obs = ObsInit
    /\ sinceTick = -1
    /\ s3 = 1
    /\ voltage = 0
    /\ minVoltage = FullScaleMv
    /\ maxVoltage = 0
    /\ twin = [seconds |-> 0, minutes |-> 0]

(***************************************************************************)
(* shiftOutMSBFirst and writeToShiftRegister, run to completion.           *)
(***************************************************************************)
RECURSIVE ShiftFrom(_, _, _)
\* the loop body for i = k, k-1, .., 0: data bit, clock high, clock low
ShiftFrom(h, v, k) ==
    IF k < 0 THEN h
    ELSE ShiftFrom(SetClock(SetClock(SetData(h, BitTest(v, k)), 1), 0), v, k - 1)

shiftOutMSBFirst(h, v) == ShiftFrom(h, v, TopBit)

writeToShiftRegister(h, s, d) ==
    SetLatch(shiftOutMSBFirst(shiftOutMSBFirst(SetLatch(NewCall(h), 0), s), d), 1)

(***************************************************************************)
(* displayNumber.                                                          *)
(***************************************************************************)
\* the digits in the opposite order, ones first
DigitsOfReversed(n) ==
    <<CMod(n, 10), CMod(CDiv(n, 10), 10),
      CMod(CDiv(n, 100), 10), CMod(CDiv(n, 1000), 10)>>
\* int digits[4] = {(number/1000)%10, (number/100)%10, (number/10)%10, number%10}
DigitsOf(n) ==
    <<CMod(CDiv(n, 1000), 10), CMod(CDiv(n, 100), 10),
      CMod(CDiv(n, 10), 10), CMod(n, 10)>>

\* digitPattern[d]: an index outside the array reads whatever byte lies there
Lookup(d) == IF d \in 0..9 THEN {digitPattern(d)} ELSE 0..255

\* the decimal point without the test of showDecimal
WithDecimalUnflagged(p, k, show, pos) ==
    IF k = pos THEN AndBits(p, ComplementU8(DecimalPointMask), TopBit) ELSE p
\* Task2: if (showDecimal && i == decimalPos) pattern &= ~0x80
WithDecimal(p, k, show, pos) ==
    IF show /\ k = pos THEN AndBits(p, ComplementU8(DecimalPointMask), TopBit) ELSE p

Return ==
    /\ pc' = Head(stack)
    /\ stack' = Tail(stack)

Call(label, ret) ==
    /\ pc' = label
    /\ stack' = <<ret>> \o stack

\* the loop head taking the digits from the counters as they are now
DisplayLoopRereading ==
    /\ pc = "dn_loop"
    /\ IF i < DigitCount
       THEN \E p \in Lookup(DigitsOf(minutes * 100 + seconds)[i + 1]) :
               /\ segments' = (IF variant = "Task2"
                               THEN WithDecimal(p, i, showDecimal, decimalPos)
                               ELSE p)
               /\ digit' = digitPos(i)
               /\ calls' = Append(calls, <<segments', digit'>>)
               /\ Call("wr_latch_low", "dn_sleep")
       ELSE /\ Return
            /\ UNCHANGED <<segments, digit, calls>>
    /\ UNCHANGED <<variant, seconds, minutes, ticks, s1, rdMinutes, rdSeconds,
                   number, showDecimal, decimalPos, i, value, bit, hw, tickAt,
                   obs, sinceTick, s3, voltage, minVoltage, maxVoltage, twin>>

\* the loop head of displayNumber: for (i < 4) the pattern is looked up and
\* writeToShiftRegister(pattern, digitPos[i]) is called; otherwise it returns
DisplayLoop ==
    /\ pc = "dn_loop"
    /\ IF i < DigitCount
       THEN \E p \in Lookup(DigitsOf(number)[i + 1]) :
               /\ segments' = (IF variant = "Task2"
                               THEN WithDecimal(p, i, showDecimal, decimalPos)
                               ELSE p)
               /\ digit' = digitPos(i)
               /\ calls' = Append(calls, <<segments', digit'>>)
               /\ Call("wr_latch_low", "dn_sleep")
       ELSE /\ Return
            /\ UNCHANGED <<segments, digit, calls>>
    /\ UNCHANGED <<variant, seconds, minutes, ticks, s1, rdMinutes, rdSeconds,
                   number, showDecimal, decimalPos, i, value, bit, hw, tickAt,
                   obs, sinceTick, s3, voltage, minVoltage, maxVoltage, twin>>

\* the dwell without the i++ of the loop
DisplaySleepNoStep ==
    /\ pc = "dn_sleep"
    /\ hw' = Sleep(hw, DwellMs)
    /\ sinceTick' = Elapse(sinceTick, DwellMs)
    /\ pc' = "dn_loop"
    /\ UNCHANGED <<variant, seconds, minutes, ticks, s1, stack, rdMinutes,
                   rdSeconds, number, showDecimal, decimalPos, i, segments,
                   digit, value, bit, calls, tickAt, obs, s3, voltage,
                   minVoltage, maxVoltage, twin>>

\* ThisThread::sleep_for(2ms); i++
DisplaySleep ==
    /\ pc = "dn_sleep"
    /\ hw' = Sleep(hw, DwellMs)
    /\ sinceTick' = Elapse(sinceTick, DwellMs)
    /\ i' = i + 1
    /\ pc' = "dn_loop"
    /\ UNCHANGED <<variant, seconds, minutes, ticks, s1, stack, rdMinutes,
                   rdSeconds, number, showDecimal, decimalPos, segments,
                   digit, value, bit, calls, tickAt, obs, s3, voltage,
                   minVoltage, maxVoltage, twin>>

\* writeToShiftRegister(segments, digit) as one step
WriteFrame ==
    /\ pc = "wr_latch_low"
    /\ hw' = writeToShiftRegister(hw, segments, digit)
    /\ tickAt' = "none"
    /\ Return
    /\ UNCHANGED <<variant, seconds, minutes, ticks, s1, rdMinutes, rdSeconds,
                   number, showDecimal, decimalPos, i, segments, digit, value,
                   bit, calls, obs, sinceTick, s3, voltage, minVoltage,
                   maxVoltage, twin>>

(***************************************************************************)
(* writeToShiftRegister and shiftOutMSBFirst, one line write per step (the *)
(* timer callback may run between any two of them).                        *)
(***************************************************************************)
\* the call without the write of latchPin = 0
WriteLatchLowSkipped ==
    /\ pc = "wr_latch_low"
    /\ hw' = NewCall(hw)
    /\ tickAt' = "none"
    /\ value' = segments
    /\ bit' = TopBit
    /\ Call("so_data", "wr_second")
    /\ UNCHANGED <<variant, seconds, minutes, ticks, s1, rdMinutes, rdSeconds,
                   number, showDecimal, decimalPos, i, segments, digit, calls,
                   obs, sinceTick, s3, voltage, minVoltage, maxVoltage, twin>>

\* latchPin = 0; shiftOutMSBFirst(segments)
WriteLatchLow ==
    /\ pc = "wr_latch_low"
    /\ hw' = SetLatch(NewCall(hw), 0)
    /\ tickAt' = "none"
    /\ value' = segments
    /\ bit' = TopBit
    /\ Call("so_data", "wr_second")
    /\ UNCHANGED <<variant, seconds, minutes, ticks, s1, rdMinutes, rdSeconds,
                   number, showDecimal, decimalPos, i, segments, digit, calls,
                   obs, sinceTick, s3, voltage, minVoltage, maxVoltage, twin>>

\* the bits sent least significant first
ShiftDataLSBFirst ==
    /\ pc = "so_data"
    /\ hw' = SetData(hw, BitTest(value, TopBit - bit))
    /\ pc' = "so_clock_high"
    /\ UNCHANGED <<variant, seconds, minutes, ticks, s1, stack, rdMinutes,
                   rdSeconds, number, showDecimal, decimalPos, i, segments,
                   digit, value, bit, calls, tickAt, obs, sinceTick, s3,
                   voltage, minVoltage, maxVoltage, twin>>

\* dataPin = (value & (1 << i)) ? 1 : 0
ShiftData ==
    /\ pc = "so_data"
    /\ hw' = SetData(hw, BitTest(value, bit))
    /\ pc' = "so_clock_high"
    /\ UNCHANGED <<variant, seconds, minutes, ticks, s1, stack, rdMinutes,
                   rdSeconds, number, showDecimal, decimalPos, i, segments,
                   digit, value, bit, calls, tickAt, obs, sinceTick, s3,
                   voltage, minVoltage, maxVoltage, twin>>

\* clockPin = 1
ShiftClockHigh ==
    /\ pc = "so_clock_high"
    /\ hw' = SetClock(hw, 1)
    /\ pc' = "so_clock_low"
    /\ UNCHANGED <<variant, seconds, minutes, ticks, s1, stack, rdMinutes,
                   rdSeconds, number, showDecimal, decimalPos, i, segments,
                   digit, value, bit, calls, tickAt, obs, sinceTick, s3,
                   voltage, minVoltage, maxVoltage, twin>>

\* clockPin = 0; i--; the loop goes on while i >= 0, then the function returns
ShiftClockLow ==
    /\ pc = "so_clock_low"
    /\ hw' = SetClock(hw, 0)
    /\ bit' = bit - 1
    /\ IF bit - 1 >= 0
       THEN pc' = "so_data" /\ stack' = stack
       ELSE Return
    /\ UNCHANGED <<variant, seconds, minutes, ticks, s1, rdMinutes, rdSeconds,
                   number, showDecimal, decimalPos, i, segments, digit, value,
                   calls, tickAt, obs, sinceTick, s3, voltage, minVoltage,
                   maxVoltage, twin>>

\* the latch raised before the second byte is sent
WriteSecondByteLatched ==
    /\ pc = "wr_second"
    /\ hw' = SetLatch(hw, 1)
    /\ value' = digit
    /\ bit' = TopBit
    /\ Call("so_data", "wr_latch_high")
    /\ UNCHANGED <<variant, seconds, minutes, ticks, s1, rdMinutes, rdSeconds,
                   number, showDecimal, decimalPos, i, segments, digit, calls,
                   tickAt, obs, sinceTick, s3, voltage, minVoltage,
                   maxVoltage, twin>>

\* shiftOutMSBFirst(digit)
WriteSecondByte ==
    /\ pc = "wr_second"
    /\ value' = digit
    /\ bit' = TopBit
    /\ Call("so_data", "wr_latch_high")
    /\ UNCHANGED <<variant, seconds, minutes, ticks, s1, rdMinutes, rdSeconds,
                   number, showDecimal, decimalPos, i, segments, digit, hw,
                   calls, tickAt, obs, sinceTick, s3, voltage, minVoltage,
                   maxVoltage, twin>>

\* latchPin = 1; return
WriteLatchHigh ==
    /\ pc = "wr_latch_high"
    /\ hw' = SetLatch(hw, 1)
    /\ Return
    /\ UNCHANGED <<variant, seconds, minutes, ticks, s1, rdMinutes, rdSeconds,
                   number, showDecimal, decimalPos, i, segments, digit, value,
                   bit, calls, tickAt, obs, sinceTick, s3, voltage,
                   minVoltage, maxVoltage, twin>>

(***************************************************************************)
(* main of src/main.cpp, the timer callback and the reset button.          *)
(***************************************************************************)
\* where main goes on after the reset block
AfterReset == IF variant = "Task2" THEN "read_pot" ELSE "eval_arg"

\* if (!s1)
Poll ==
    /\ pc = "poll"
    /\ pc' = IF s1 = 1 THEN AfterReset
             ELSE IF variant = "Task2" THEN "t2_reset_seconds"
             ELSE "reset_minutes"
    /\ obs' = ObsPoll(obs, s1)
    /\ UNCHANGED <<variant, seconds, minutes, ticks, s1, stack, rdMinutes,
                   rdSeconds, number, showDecimal, decimalPos, i, segments,
                   digit, value, bit, hw, calls, tickAt, sinceTick, s3,
                   voltage, minVoltage, maxVoltage, twin>>

\* seconds = minutes = 0: the right assignment first
ResetMinutes ==
    /\ pc = "reset_minutes"
    /\ minutes' = 0
    /\ pc' = "reset_seconds"
    /\ UNCHANGED <<variant, seconds, ticks, s1, stack, rdMinutes, rdSeconds,
                   number, showDecimal, decimalPos, i, segments, digit, value,
                   bit, hw, calls, tickAt, obs, sinceTick, s3, voltage,
                   minVoltage, maxVoltage, twin>>

\* seconds receives the value of the expression minutes = 0, an lvalue of a
\* volatile int: a build stores the 0 or reads minutes again
ResetSeconds ==
    /\ pc = "reset_seconds"
    /\ seconds' \in {0, minutes}
    /\ pc' = "debounce"
    /\ UNCHANGED <<variant, minutes, ticks, s1, stack, rdMinutes, rdSeconds,
                   number, showDecimal, decimalPos, i, segments, digit, value,
                   bit, hw, calls, tickAt, obs, sinceTick, s3, voltage,
                   minVoltage, maxVoltage, twin>>

\* Task2: seconds = 0;
ResetSecondsTask2 ==
    /\ pc = "t2_reset_seconds"
    /\ seconds' = 0
    /\ pc' = "t2_reset_minutes"
    /\ UNCHANGED <<variant, minutes, ticks, s1, stack, rdMinutes, rdSeconds,
                   number, showDecimal, decimalPos, i, segments, digit, value,
                   bit, hw, calls, tickAt, obs, sinceTick, s3, voltage,
                   minVoltage, maxVoltage, twin>>

\* Task2: minutes = 0;
ResetMinutesTask2 ==
    /\ pc = "t2_reset_minutes"
    /\ minutes' = 0
    /\ pc' = "debounce"
    /\ UNCHANGED <<variant, seconds, ticks, s1, stack, rdMinutes, rdSeconds,
                   number, showDecimal, decimalPos, i, segments, digit, value,
                   bit, hw, calls, tickAt, obs, sinceTick, s3, voltage,
                   minVoltage, maxVoltage, twin>>

\* ThisThread::sleep_for(200ms)
Debounce ==
    /\ pc = "debounce"
    /\ hw' = Sleep(hw, DebounceMs)
    /\ sinceTick' = Elapse(sinceTick, DebounceMs)
    /\ obs' = ObsDebounce(obs)
    /\ pc' = AfterReset
    /\ UNCHANGED <<variant, seconds, minutes, ticks, s1, stack, rdMinutes,
                   rdSeconds, number, showDecimal, decimalPos, i, segments,
                   digit, value, bit, calls, tickAt, s3, voltage, minVoltage,
                   maxVoltage, twin>>

\* Task2: float voltage = pot.read() * 3.3f
ReadPot ==
    /\ pc = "read_pot"
    /\ voltage' \in PotReadings
    /\ pc' = "track"
    /\ UNCHANGED <<variant, seconds, minutes, ticks, s1, stack, rdMinutes,
                   rdSeconds, number, showDecimal, decimalPos, i, segments,
                   digit, value, bit, hw, calls, tickAt, obs, sinceTick, s3,
                   minVoltage, maxVoltage, twin>>

\* Task2: if (voltage < minVoltage) minVoltage = voltage;
\*        if (voltage > maxVoltage) maxVoltage = voltage;
TrackVoltage ==
    /\ pc = "track"
    /\ minVoltage' = (IF voltage < minVoltage THEN voltage ELSE minVoltage)
    /\ maxVoltage' = (IF voltage > maxVoltage THEN voltage ELSE maxVoltage)
    /\ pc' = "mode"
    /\ UNCHANGED <<variant, seconds, minutes, ticks, s1, stack, rdMinutes,
                   rdSeconds, number, showDecimal, decimalPos, i, segments,
                   digit, value, bit, hw, calls, tickAt, obs, sinceTick, s3,
                   voltage, twin>>

\* Task2: if (!s3) displayNumber(static_cast<int>(voltage * 100), true, 1)
ModeVoltage ==
    /\ pc = "mode"
    /\ s3 = 0
    /\ number' = VoltageScaled(voltage)
    /\ showDecimal' = TRUE
    /\ decimalPos' = 1
    /\ i' = 0
    /\ calls' = <<>>
    /\ hw' = NewSweep(hw)
    /\ obs' = ObsCallVoltage(obs)
    /\ Call("dn_loop", "poll")
    /\ UNCHANGED <<variant, seconds, minutes, ticks, s1, rdMinutes, rdSeconds,
                   segments, digit, value, bit, tickAt, sinceTick, s3, voltage,
                   minVoltage, maxVoltage, twin>>

\* Task2: else: the stopwatch is displayed
ModeTime ==
    /\ pc = "mode"
    /\ s3 = 1
    /\ pc' = "eval_arg"
    /\ UNCHANGED <<variant, seconds, minutes, ticks, s1, stack, rdMinutes,
                   rdSeconds, number, showDecimal, decimalPos, i, segments,
                   digit, value, bit, hw, calls, tickAt, obs, sinceTick, s3,
                   voltage, minVoltage, maxVoltage, twin>>

\* minutes * 100 + seconds reads the two volatile counters, in an order the
\* language leaves to the compiler
ReadMinutes ==
    /\ pc = "eval_arg"
    /\ rdMinutes = -1
    /\ rdMinutes' = minutes
    /\ obs' = ObsRead(obs, minutes, seconds)
    /\ UNCHANGED <<variant, seconds, minutes, ticks, s1, pc, stack, rdSeconds,
                   number, showDecimal, decimalPos, i, segments, digit, value,
                   bit, hw, calls, tickAt, sinceTick, s3, voltage, minVoltage,
                   maxVoltage, twin>>

ReadSeconds ==
    /\ pc = "eval_arg"
    /\ rdSeconds = -1
    /\ rdSeconds' = seconds
    /\ obs' = ObsRead(obs, minutes, seconds)
    /\ UNCHANGED <<variant, seconds, minutes, ticks, s1, pc, stack, rdMinutes,
                   number, showDecimal, decimalPos, i, segments, digit, value,
                   bit, hw, calls, tickAt, sinceTick, s3, voltage, minVoltage,
                   maxVoltage, twin>>

\* displayNumber(minutes * 100 + seconds)
CallDisplay ==
    /\ pc = "eval_arg"
    /\ rdMinutes # -1
    /\ rdSeconds # -1
    /\ number' = rdMinutes * 100 + rdSeconds
    /\ showDecimal' = FALSE
    /\ decimalPos' = -1
    /\ i' = 0
    /\ calls' = <<>>
    /\ hw' = NewSweep(hw)
    /\ obs' = ObsCall(obs, rdMinutes, rdSeconds)
    /\ rdMinutes' = -1
    /\ rdSeconds' = -1
    /\ Call("dn_loop", "poll")
    /\ UNCHANGED <<variant, seconds, minutes, ticks, s1, segments, digit, value,
                   bit, tickAt, sinceTick, s3, voltage, minVoltage, maxVoltage,
                   twin>>

\* the positions of the main thread between the two latch writes of a call
InsideWrite == {"so_data", "so_clock_high", "so_clock_low", "wr_second", "wr_latch_high"}

\* the Ticker runs updateTime; it interrupts the main thread between any two
\* of its steps and runs to its end, not before its period has passed
TickUpTo(limit) ==
    /\ ticks < limit
    /\ variant = "main"
    /\ sinceTick \in {-1, TickPeriodMs}
    /\ ticks' = ticks + 1
    /\ seconds' = updateTime(seconds, minutes).seconds
    /\ minutes' = updateTime(seconds, minutes).minutes
    /\ tickAt' = (IF pc \in InsideWrite THEN pc ELSE tickAt)
    /\ obs' = ObsTick(obs, minutes', seconds')
    /\ sinceTick' = (IF sinceTick = -1 THEN -1 ELSE 0)
    /\ UNCHANGED <<variant, s1, pc, stack, rdMinutes, rdSeconds, number,
                   showDecimal, decimalPos, i, segments, digit, value, bit, hw,
                   calls, s3, voltage, minVoltage, maxVoltage, twin>>

TickTask2UpTo(limit) ==
    /\ ticks < limit
    /\ variant = "Task2"
    /\ sinceTick \in {-1, TickPeriodMs}
    /\ ticks' = ticks + 1
    /\ seconds' = updateTimeTask2(seconds, minutes).seconds
    /\ minutes' = updateTimeTask2(seconds, minutes).minutes
    /\ tickAt' = (IF pc \in InsideWrite THEN pc ELSE tickAt)
    /\ obs' = ObsTick(obs, minutes', seconds')
    /\ sinceTick' = (IF sinceTick = -1 THEN -1 ELSE 0)
    /\ UNCHANGED <<variant, s1, pc, stack, rdMinutes, rdSeconds, number,
                   showDecimal, decimalPos, i, segments, digit, value, bit, hw,
                   calls, s3, voltage, minVoltage, maxVoltage, twin>>

Tick == TickUpTo(MaxTicks)

TickTask2 == TickTask2UpTo(MaxTicks)

\* the user presses or releases the reset button (active low)
PressS1 ==
    /\ s1 = 1
    /\ s1' = 0
    /\ UNCHANGED <<variant, seconds, minutes, ticks, pc, stack, rdMinutes,
                   rdSeconds, number, showDecimal, decimalPos, i, segments,
                   digit, value, bit, hw, calls, tickAt, obs, sinceTick, s3,
                   voltage, minVoltage, maxVoltage, twin>>

ReleaseS1 ==
    /\ s1 = 0
    /\ s1' = 1
    /\ UNCHANGED <<variant, seconds, minutes, ticks, pc, stack, rdMinutes,
                   rdSeconds, number, showDecimal, decimalPos, i, segments,
                   digit, value, bit, hw, calls, tickAt, obs, sinceTick, s3,
                   voltage, minVoltage, maxVoltage, twin>>

\* Task2: the user presses or releases the mode button (active low)
PressS3 ==
    /\ variant = "Task2"
    /\ s3 = 1
    /\ s3' = 0
    /\ UNCHANGED <<variant, seconds, minutes, ticks, s1, pc, stack, rdMinutes,
                   rdSeconds, number, showDecimal, decimalPos, i, segments,
                   digit, value, bit, hw, calls, tickAt, obs, sinceTick,
                   voltage, minVoltage, maxVoltage, twin>>

ReleaseS3 ==
    /\ variant = "Task2"
    /\ s3 = 0
    /\ s3' = 1
    /\ UNCHANGED <<variant, seconds, minutes, ticks, s1, pc, stack, rdMinutes,
                   rdSeconds, number, showDecimal, decimalPos, i, segments,
                   digit, value, bit, hw, calls, tickAt, obs, sinceTick,
                   voltage, minVoltage, maxVoltage, twin>>

\* the state when main reaches its loop: counters 0, lines low, button pulled up
Init ==
    /\ variant = "main"
    /\ seconds = 0
    /\ minutes = 0
    /\ ticks = 0
    /\ s1 \in {0, 1}
    /\ pc = "poll"
    /\ stack = <<>>
    /\ rdMinutes = -1
    /\ rdSeconds = -1
    /\ number = 0
    /\ showDecimal = FALSE
    /\ decimalPos = -1
    /\ i = 0
    /\ segments = 0
    /\ digit = 0
    /\ value = 0
    /\ bit = 0
    /\ hw = HwInit
    /\ calls = <<>>
    /\ tickAt = "none"
    /\ RestInit

Next ==
    \/ Poll \/ ResetMinutes \/ ResetSeconds \/ Debounce
    \/ ReadMinutes \/ ReadSeconds \/ CallDisplay
    \/ DisplayLoop \/ DisplaySleep
    \/ WriteLatchLow \/ ShiftData \/ ShiftClockHigh \/ ShiftClockLow
    \/ WriteSecondByte \/ WriteLatchHigh
    \/ Tick \/ PressS1 \/ ReleaseS1

\* the running program of src/main.cpp
Spec == Init /\ [][Next]_vars

(***************************************************************************)
(* The stopwatch alone: the callback applied tick after tick from (0,0),   *)
(* in both variants.                                                       *)
(***************************************************************************)
Idle ==
    /\ s1 = 1
    /\ stack = <<>>
    /\ rdMinutes = -1
    /\ rdSeconds = -1
    /\ number = 0
    /\ showDecimal = FALSE
    /\ decimalPos = -1
    /\ i = 0
    /\ segments = 0
    /\ digit = 0
    /\ value = 0
    /\ bit = 0
    /\ hw = HwInit
    /\ calls = <<>>
    /\ tickAt = "none"
    /\ RestInit

InitStopwatch ==
    /\ variant \in {"main", "Task2"}
    /\ seconds = 0
    /\ minutes = 0
    /\ ticks = 0
    /\ pc = "halt"
    /\ Idle

StopwatchTick == TickUpTo(MaxTickCount)

StopwatchTickTask2 == TickTask2UpTo(MaxTickCount)

NextStopwatch == StopwatchTick \/ StopwatchTickTask2

SpecStopwatch == InitStopwatch /\ [][NextStopwatch]_vars

RECURSIVE Sampled(_, _, _)
\* the data-line levels at the rising clock edges, in order, for lines that
\* start at clock level clk and data level dat
Sampled(ev, clk, dat) ==
    IF ev = <<>> THEN <<>>
    ELSE LET e == Head(ev)
         IN  IF e[1] = "data" THEN Sampled(Tail(ev), clk, e[2])
             ELSE IF e[1] = "clock"
                  THEN (IF clk = 0 /\ e[2] = 1 THEN <<dat>> ELSE <<>>)
                       \o Sampled(Tail(ev), e[2], dat)
                  ELSE Sampled(Tail(ev), clk, dat)

RECURSIVE Assemble(_)
\* the number whose binary digits, most significant first, are bits
Assemble(bits) ==
    IF bits = <<>> THEN 0
    ELSE Head(bits) * 2 ^ (Len(bits) - 1) + Assemble(Tail(bits))

\* the 8 binary digits of byte b, most significant first (entry k+1 is bit 7-k)
BinaryDigits(b) ==
    CHOOSE f \in [1..8 -> {0, 1}] :
        b = f[1] * 128 + f[2] * 64 + f[3] * 32 + f[4] * 16
            + f[5] * 8 + f[6] * 4 + f[7] * 2 + f[8]

\* the places of the writes of pin = level in a record
Places(ev, pin, level) == {k \in 1..Len(ev) : ev[k] = <<pin, level>>}

(***************************************************************************)
(* shiftOutMSBFirst(value) alone, for every byte.                          *)
(***************************************************************************)
InitShift ==
    /\ variant \in {"main", "Task2"}
    /\ seconds = 0
    /\ minutes = 0
    /\ ticks = 0
    /\ s1 = 1
    /\ pc = "so_data"
    /\ stack = <<"halt">>
    /\ rdMinutes = -1
    /\ rdSeconds = -1
    /\ number = 0
    /\ showDecimal = FALSE
    /\ decimalPos = -1
    /\ i = 0
    /\ segments = 0
    /\ digit = 0
    /\ value \in 0..255
    /\ bit = TopBit
    /\ hw \in {[HwInit EXCEPT !.dataPin = d] : d \in {0, 1}}
    /\ calls = <<>>
    /\ tickAt = "none"
    /\ RestInit

NextShift == ShiftData \/ ShiftClockHigh \/ ShiftClockLow

SpecShift == InitShift /\ [][NextShift]_vars

\* C3: shiftOutMSBFirst(b) makes exactly 8 rising clock edges; before the k-th
\* (k = 0..7) the data line is set to bit 7-k of b; every rising edge is
\* followed by the falling edge before the data line changes again; the levels
\* sampled at the 8 rising edges, read most significant first, are b.
C3_ShiftRoundTrip ==
    LET ev == hw.events
        rising == Places(ev, "clock", 1)
        bits == Sampled(ev, 0, 0)
    IN  /\ Cardinality(rising) <= 8
        /\ \A k \in rising :
              /\ k > 1 /\ ev[k - 1][1] = "data"
              /\ k < Len(ev) => ev[k + 1] = <<"clock", 0>>
        /\ \A k \in 1..Len(bits) : bits[k] = BinaryDigits(value)[k]
        /\ pc = "halt" =>
              /\ Cardinality(rising) = 8
              /\ Len(bits) = 8
              /\ Assemble(bits) = value
              /\ hw.clockPin = 0
              /\ Len(ev) = 24

C3_ByteSent == pc = "halt" /\ value = 165 /\ Sampled(hw.events, 0, 0) = <<1, 0, 1, 0, 0, 1, 0, 1>>

(***************************************************************************)
(* writeToShiftRegister(segments, digit) alone, one line write per step.   *)
(***************************************************************************)
InitWrite ==
    /\ variant \in {"main", "Task2"}
    /\ seconds = 0
    /\ minutes = 0
    /\ ticks = 0
    /\ s1 = 1
    /\ pc = "wr_latch_low"
    /\ stack = <<"halt">>
    /\ rdMinutes = -1
    /\ rdSeconds = -1
    /\ number = 0
    /\ showDecimal = FALSE
    /\ decimalPos = -1
    /\ i = 0
    /\ segments \in 0..255
    /\ digit \in 0..MaxDigitByte
    /\ value = 0
    /\ bit = 0
    /\ hw \in {[HwInit EXCEPT !.latchPin = l] : l \in {0, 1}}
    /\ calls = <<>>
    /\ tickAt = "none"
    /\ RestInit

NextWrite ==
    \/ WriteLatchLow \/ ShiftData \/ ShiftClockHigh \/ ShiftClockLow
    \/ WriteSecondByte \/ WriteLatchHigh

SpecWrite == InitWrite /\ [][NextWrite]_vars

\* C2: writeToShiftRegister(s, d) sets the latch line low, then makes exactly
\* 16 clock pulses, 8 carrying the bits of s and then 8 carrying the bits of d,
\* then sets the latch line high; no clock pulse comes before the latch-low or
\* after the latch-high.
C2_FrameBracket ==
    LET ev == hw.events
        bits == Sampled(ev, 0, 0)
        low == Places(ev, "latch", 0)
        high == Places(ev, "latch", 1)
        clock == {k \in 1..Len(ev) : ev[k][1] = "clock"}
    IN  /\ \A k \in clock : 1 \in low /\ (\A h \in high : k < h)
        /\ Cardinality(Places(ev, "clock", 1)) <= 16
        /\ pc = "halt" =>
              /\ low = {1}
              /\ high = {Len(ev)}
              /\ Cardinality(Places(ev, "clock", 1)) = 16
              /\ Cardinality(Places(ev, "clock", 0)) = 16
              /\ Len(bits) = 16
              /\ Assemble(SubSeq(bits, 1, 8)) = segments
              /\ Assemble(SubSeq(bits, 9, 16)) = digit

C2_FrameWritten ==
    /\ pc = "halt"
    /\ segments = 164
    /\ digit = 2
    /\ hw.latchPin = 1
    /\ Len(hw.events) = 50

(***************************************************************************)
(* displayNumber alone: one call for each input, each frame written by     *)
(* writeToShiftRegister run to completion.                                 *)
(***************************************************************************)
\* displayNumber(number, showDecimal, decimalPos) is tried for number up to
\* MaxDecimalValue with every decimal argument
MaxDecimalValue == 9999

InitDisplay ==
    /\ variant \in {"main", "Task2"}
    /\ seconds = 0
    /\ minutes = 0
    /\ ticks = 0
    /\ s1 = 1
    /\ pc = "dn_loop"
    /\ stack = <<"halt">>
    /\ rdMinutes = -1
    /\ rdSeconds = -1
    /\ \/ /\ number \in (-NegSpan)..MaxNumber
          /\ showDecimal = FALSE
          /\ decimalPos = -1
       \/ /\ variant = "Task2"
          /\ number \in 0..MaxDecimalValue
          /\ showDecimal \in BOOLEAN
          /\ decimalPos \in (-1)..(DigitCount - 1)
    /\ i = 0
    /\ segments = 0
    /\ digit = 0
    /\ value = 0
    /\ bit = 0
    /\ hw = HwInit
    /\ calls = <<>>
    /\ tickAt = "none"
    /\ RestInit

NextDisplay == DisplayLoop \/ WriteFrame \/ DisplaySleep

SpecDisplay == InitDisplay /\ [][NextDisplay]_vars

\* the decimal point is asked for at position k (0..3) of the current call
DecimalAt(k) == variant = "Task2" /\ showDecimal /\ k = decimalPos

\* C4: for every value in 0..9999 displayNumber(value) makes exactly 4
\* writeToShiftRegister calls, the i-th with digit-select mask 0x01, 0x02,
\* 0x04, 0x08 in that order and the segment pattern of digit d_i,
\* d0 = (value/1000)%10, d1 = (value/100)%10, d2 = (value/10)%10,
\* d3 = value%10; 1234 gives the patterns of 1, 2, 3, 4.
C4_SweepFrames ==
    (number \in 0..9999 /\ ~(\E k \in 0..3 : DecimalAt(k))) =>
        LET d == <<(number \div 1000) % 10, (number \div 100) % 10,
                   (number \div 10) % 10, number % 10>>
        IN  /\ Len(calls) <= 4
            /\ \A k \in 1..Len(calls) :
                  calls[k] = <<digitPattern(d[k]), <<1, 2, 4, 8>>[k]>>
            /\ Len(calls) = i + (IF pc \in {"wr_latch_low", "dn_sleep"} THEN 1 ELSE 0)
            /\ pc = "halt" => Len(calls) = 4
            /\ (pc = "halt" /\ number = 1234) =>
                  calls = <<<<249, 1>>, <<164, 2>>, <<176, 4>>, <<153, 8>>>>

C4_Sweep1234 ==
    /\ pc = "halt"
    /\ number = 1234
    /\ calls = <<<<249, 1>>, <<164, 2>>, <<176, 4>>, <<153, 8>>>>
    /\ hw.outputs = 153 * 256 + 8

\* C5: for every value in 0..9999 and p in 0..3, displayNumber(value, true, p)
\* sends a segment byte with bit 7 cleared for digit index p and with bit 7
\* set for the three others (245 with p = 1 shows 0, 2, 4, 5 with the point at
\* index 1 only); with showDecimal false or decimalPos -1 no segment byte of
\* the sweep has bit 7 cleared.
C5_DecimalPoint ==
    (variant = "Task2" /\ number \in 0..9999) =>
        /\ \A k \in 1..Len(calls) :
              IF showDecimal /\ decimalPos \in 0..3 /\ decimalPos = k - 1
              THEN calls[k][1] < 128
              ELSE calls[k][1] >= 128
        /\ (pc = "halt" /\ number = 245 /\ showDecimal /\ decimalPos = 1) =>
              calls = <<<<192, 1>>, <<36, 2>>, <<153, 4>>, <<146, 8>>>>
        /\ pc = "halt" => Len(calls) = 4

C5_Sweep245 ==
    /\ pc = "halt"
    /\ variant = "Task2"
    /\ number = 245
    /\ showDecimal
    /\ decimalPos = 1
    /\ calls = <<<<192, 1>>, <<36, 2>>, <<153, 4>>, <<146, 8>>>>

\* C6: for every digit d in 0..9 the segment byte sent without decimal point
\* is the 8-bit complement of the 7-segment code {0x3F, 0x06, 0x5B, 0x4F, 0x66,
\* 0x6D, 0x7D, 0x07, 0x7F, 0x6F}[d]; the byte sent with the decimal point has
\* bit 7 cleared where the other has it set, and the same bits 0..6.
C6_SegmentBytes ==
    number \in 0..9999 =>
        \A k \in 1..Len(calls) :
            LET d == (number \div (10 ^ (4 - k))) % 10
                code == <<63, 6, 91, 79, 102, 109, 125, 7, 127, 111>>[d + 1]
                plain == 255 - code
            IN  /\ plain >= 128
                /\ \A j \in 0..7 : BitTest(plain, j) = 1 - BitTest(code, j)
                /\ calls[k][1] = (IF DecimalAt(k - 1) THEN plain - 128 ELSE plain)

\* every digit 0..9 sent, one of them with the decimal point
C6_AllDigitsSent ==
    /\ pc = "halt"
    /\ number = 6789
    /\ DecimalAt(3)
    /\ calls = <<<<130, 1>>, <<248, 2>>, <<128, 4>>, <<16, 8>>>>

\* C9: for every value outside [0,9999], negative values included, the four
\* digits (value/1000)%10, (value/100)%10, (value/10)%10, value%10 lie in 0..9,
\* so that every digitPattern lookup of the sweep is in bounds, and the sweep
\* shows the low four decimal digits of the value (12345 as 2345, 10000 as
\* 0000).
C9_DigitsInBounds ==
    (number \notin 0..9999) =>
        /\ \A k \in 1..Len(calls) :
              /\ DigitsOf(number)[k] \in 0..9
              /\ calls[k][1] = digitPattern(DigitsOf(number)[k])
        /\ (pc = "halt" /\ number = 12345) =>
              calls = <<<<164, 1>>, <<176, 2>>, <<153, 4>>, <<146, 8>>>>
        /\ (pc = "halt" /\ number = 10000) =>
              calls = <<<<192, 1>>, <<192, 2>>, <<192, 4>>, <<192, 8>>>>

(***************************************************************************)
(* Claims about the running program (Spec).                                *)
(***************************************************************************)
\* the latch line rises in this step
LatchRises == hw.latchPin = 0 /\ hw'.latchPin = 1

\* the 16-bit patterns of whole frames: a digit pattern over a digit select
WholeFrames ==
    {digitPattern(d) * 256 + digitPos(k) : d \in 0..9, k \in 0..(DigitCount - 1)}

\* C7: with the register a 16-bit chain that copies itself to the outputs on
\* a rising latch edge only, the outputs change only at rising latch edges,
\* and at each of them the chain holds the whole pair (segments, digit) of the
\* current writeToShiftRegister call: no partly shifted pattern reaches the
\* outputs, also when the timer callback interrupts the transfer.
C7_LatchedWhole ==
    [][ /\ hw'.outputs # hw.outputs => LatchRises
        /\ LatchRises => /\ hw'.chain = segments * 256 + digit
                         /\ hw'.outputs = segments * 256 + digit
        /\ hw'.outputs \in WholeFrames \cup {0} ]_vars

C7_LatchedAfterTick ==
    /\ pc = "dn_sleep"
    /\ tickAt \in InsideWrite
    /\ hw.outputs = segments * 256 + digit
    /\ hw.outputs # hw.prevOutputs
    /\ hw.prevOutputs # 0

\* C8: the digit-select byte on the latched outputs (all zero at the start)
\* has at most one bit set in every state; once a frame has been latched it
\* is one of 0x01, 0x02, 0x04, 0x08; successive latched frames select the
\* positions in the cyclic order 0, 1, 2, 3, 0, 1, ...
C8_OneDigitSelected ==
    LET sel == hw.outputs % 256
        prev == hw.prevOutputs % 256
        latched == hw.lastHeld >= 0
    IN  /\ sel \in {0} \cup {2 ^ k : k \in 0..7}
        /\ latched => sel \in {1, 2, 4, 8}
        /\ latched =>
              IF prev = 0 THEN sel = 1
              ELSE \E k \in 0..3 : prev = 2 ^ k /\ sel = 2 ^ ((k + 1) % 4)

C8_SweepWrapped ==
    /\ hw.outputs % 256 = 1
    /\ hw.prevOutputs % 256 = 8
    /\ pc = "dn_sleep"

\* C10: counting time in the sleeps of the loop, every digit position is held
\* for exactly one 2 ms dwell per sweep, and the time between two successive
\* latchings of the same position is at most the 8 ms sweep (under 16 ms), in
\* every execution, those with the reset button pressed included.
C10_RefreshPeriod ==
    /\ hw.period >= 0 => (hw.period <= 4 * 2 /\ hw.period < 16)
    /\ (hw.lastHeld >= 0 /\ hw.prevOutputs # 0) => hw.lastHeld = 2

\* a frame has been written since the start
FrameWritten == hw.latches >= 1 \/ hw.sweepGap >= 0

\* C16: at every rising clock edge the latch line is low; at every change of
\* the latch line the clock line is low; once a frame has been written, the
\* latch line is high and the clock line low whenever the main thread is
\* outside writeToShiftRegister, and the dwell and debounce sleeps leave both
\* lines as they are.
C16_LineDiscipline ==
    [][/\ (hw.clockPin = 0 /\ hw'.clockPin = 1)
           => (hw.latchPin = 0 /\ hw'.latchPin = 0)
       /\ (hw.latchPin # hw'.latchPin)
           => (hw.clockPin = 0 /\ hw'.clockPin = 0)
       /\ (FrameWritten /\ pc \notin InsideWrite)
           => (hw.latchPin = 1 /\ hw.clockPin = 0)
       /\ (pc \in {"dn_sleep", "debounce"} /\ pc' # pc)
           => (hw'.latchPin = hw.latchPin /\ hw'.clockPin = hw.clockPin)
       /\ (pc \in {"dn_sleep", "debounce"} /\ FrameWritten)
           => (hw.latchPin = 1 /\ hw.clockPin = 0)]_vars

C16_DebounceBetweenFrames ==
    /\ pc = "debounce"
    /\ hw.sinceSweep >= 0
    /\ hw.pulses = 64
    /\ hw.latches = 4
    /\ hw.latchPin = 1
    /\ hw.clockPin = 0

\* the positions of the main thread inside displayNumber and its callees
InsideDisplay == {"dn_loop", "dn_sleep", "wr_latch_low"} \cup InsideWrite

\* C18: inside one displayNumber call the parameter number never changes and
\* every frame handed to writeToShiftRegister, and every frame latched, is
\* made of the digits of number, whatever the counters have become; a timer
\* callback changes none of the lines nor the register behind them; the steps
\* of displayNumber, writeToShiftRegister and shiftOutMSBFirst leave seconds
\* and minutes as they are.
C18_SweepFromCapture ==
    [][/\ pc \in InsideDisplay =>
            /\ pc' \in InsideDisplay => number' = number
            /\ \A k \in 1..Len(calls') :
                  calls'[k] = <<digitPattern(DigitsOf(number)[k]), digitPos(k - 1)>>
            /\ hw'.outputs # hw.outputs =>
                  hw'.outputs = digitPattern(DigitsOf(number)[i + 1]) * 256
                                + digitPos(i)
            /\ ticks' = ticks => (seconds' = seconds /\ minutes' = minutes)
       /\ ticks' # ticks =>
            /\ hw'.dataPin = hw.dataPin
            /\ hw'.clockPin = hw.clockPin
            /\ hw'.latchPin = hw.latchPin
            /\ hw'.chain = hw.chain
            /\ hw'.outputs = hw.outputs
            /\ <<number, i, segments, digit, value, bit, calls>>'
               = <<number, i, segments, digit, value, bit, calls>>]_vars

C18_TickedDuringSweep ==
    /\ pc = "wr_latch_high"
    /\ i = 3
    /\ tickAt = "so_clock_high"
    /\ number = 0
    /\ seconds = 3
    /\ calls[4] = <<digitPattern(0), 8>>
    /\ hw.chain = digitPattern(0) * 256 + 8

(***************************************************************************)
(* displayNumber called again and again, one line write per step, with the *)
(* timer callback running between the steps.                               *)
(***************************************************************************)
\* the values displayNumber is called with
SweepNumbers == {0, 1234, 9959, 12345}

\* the arguments showDecimal and decimalPos it is called with
SweepDecimals ==
    IF variant = "Task2" THEN {<<FALSE, -1>>, <<TRUE, 1>>} ELSE {<<FALSE, -1>>}

InitSweep ==
    /\ variant \in {"main", "Task2"}
    /\ seconds = 0
    /\ minutes = 0
    /\ ticks = 0
    /\ pc = "caller"
    /\ Idle

\* a caller calls displayNumber
EnterSweep ==
    /\ pc = "caller"
    /\ number' \in SweepNumbers
    /\ \E d \in SweepDecimals : showDecimal' = d[1] /\ decimalPos' = d[2]
    /\ i' = 0
    /\ calls' = <<>>
    /\ hw' = NewSweep(hw)
    /\ Call("dn_loop", "caller")
    /\ UNCHANGED <<variant, seconds, minutes, ticks, s1, rdMinutes, rdSeconds,
                   segments, digit, value, bit, tickAt, obs, sinceTick, s3,
                   voltage, minVoltage, maxVoltage, twin>>

\* the steps of displayNumber and of the functions it calls
SweepStep ==
    \/ DisplayLoop \/ DisplaySleep
    \/ WriteLatchLow \/ ShiftData \/ ShiftClockHigh \/ ShiftClockLow
    \/ WriteSecondByte \/ WriteLatchHigh

NextSweep == EnterSweep \/ SweepStep \/ Tick \/ TickTask2

\* the main thread keeps running
SpecSweep == InitSweep /\ [][NextSweep]_vars /\ WF_vars(SweepStep)

\* the counts of a sweep in progress: frames handed over, rising latch and
\* clock edges, sleeps
SweepCounts ==
    /\ i \in 0..DigitCount
    /\ Len(calls) <= 4 /\ hw.latches <= 4 /\ hw.pulses <= 64 /\ hw.sleeps <= 4
    /\ pc = "dn_loop" =>
          (Len(calls) = i /\ hw.latches = i /\ hw.pulses = 16 * i /\ hw.sleeps = i)
    /\ pc = "dn_sleep" =>
          (Len(calls) = i + 1 /\ hw.latches = i + 1 /\ hw.pulses = 16 * (i + 1)
           /\ hw.sleeps = i)
    /\ pc \in InsideWrite \cup {"wr_latch_low"} =>
          (Len(calls) = i + 1 /\ hw.latches = i /\ hw.sleeps = i
           /\ hw.pulses \in (16 * i)..(16 * (i + 1)))

\* displayNumber has returned from a whole sweep
SweepDone ==
    /\ pc = "caller"
    /\ stack = <<>>
    /\ i = 4
    /\ Len(calls) = 4 /\ hw.latches = 4 /\ hw.pulses = 64 /\ hw.sleeps = 4
    /\ \A k \in 1..4 :
          calls[k] = <<WithDecimal(digitPattern(DigitsOf(number)[k]), k - 1,
                                   showDecimal, decimalPos),
                       digitPos(k - 1)>>

\* C12: every call of displayNumber, the first and every later one, for
\* every value and under every interleaving of the timer callback, starts
\* from zero counts, never exceeds 4 frames, 4 rising latch edges, 64 clock
\* pulses and 4 dwells, and returns to its caller having made exactly these,
\* its frames being those of its arguments alone.
C12_OneSweepThenReturn ==
    /\ [](pc \in InsideDisplay => SweepCounts)
    /\ [](pc = "caller" => (hw.sinceSweep = -1 \/ SweepDone))
    /\ (pc = "dn_loop" /\ i = 0) ~> SweepDone

C12_SecondSweepReturned ==
    /\ SweepDone
    /\ hw.sweepGap = 8
    /\ number = 12345
    /\ seconds = 2

(***************************************************************************)
(* The two callbacks side by side: seconds and minutes are driven by the   *)
(* updateTime of src/main.cpp, twin by that of src/Task2/main.cpp, from    *)
(* every common start in range, by the same ticks and resets.              *)
(***************************************************************************)
InitTwin ==
    /\ variant = "main"
    /\ seconds \in 0..(SecondsPerMinute - 1)
    /\ minutes \in 0..(MinutesWrap - 1)
    /\ ticks = 0
    /\ s1 = 1
    /\ pc = "halt"
    /\ stack = <<>>
    /\ rdMinutes = -1
    /\ rdSeconds = -1
    /\ number = 0
    /\ showDecimal = FALSE
    /\ decimalPos = -1
    /\ i = 0
    /\ segments = 0
    /\ digit = 0
    /\ value = 0
    /\ bit = 0
    /\ hw = HwInit
    /\ calls = <<>>
    /\ tickAt = "none"
    /\ obs = ObsInit
    /\ sinceTick = -1
    /\ s3 = 1
    /\ voltage = 0
    /\ minVoltage = FullScaleMv
    /\ maxVoltage = 0
    /\ twin = [seconds |-> seconds, minutes |-> minutes]

\* one tick: each program runs its callback; ticks counts them since the
\* start or the last reset
TwinTick ==
    /\ ticks < MaxTicks
    /\ ticks' = ticks + 1
    /\ seconds' = updateTime(seconds, minutes).seconds
    /\ minutes' = updateTime(seconds, minutes).minutes
    /\ twin' = updateTimeTask2(twin.seconds, twin.minutes)
    /\ UNCHANGED <<variant, s1, pc, stack, rdMinutes, rdSeconds, number,
                   showDecimal, decimalPos, i, segments, digit, value, bit, hw,
                   calls, tickAt, obs, sinceTick, s3, voltage, minVoltage,
                   maxVoltage>>

\* one reset: each program sets its two counters to 0
TwinReset ==
    /\ ticks' = 0
    /\ seconds' = 0
    /\ minutes' = 0
    /\ twin' = [seconds |-> 0, minutes |-> 0]
    /\ UNCHANGED <<variant, s1, pc, stack, rdMinutes, rdSeconds, number,
                   showDecimal, decimalPos, i, segments, digit, value, bit, hw,
                   calls, tickAt, obs, sinceTick, s3, voltage, minVoltage,
                   maxVoltage>>

NextTwin == TwinTick \/ TwinReset

SpecTwin == InitTwin /\ [][NextTwin]_vars

AfterSweeps(n) ==
    LET last == writeToShiftRegister(HwInit, digitPattern(DigitsOf(n)[DigitCount]),
                                     digitPos(DigitCount - 1))
    IN  [latchPin |-> 1, clockPin |-> 0, dataPin |-> last.dataPin,
         chain |-> last.chain, outputs |-> last.outputs,
         prevOutputs |-> digitPattern(DigitsOf(n)[DigitCount - 1]) * 256
                         + digitPos(DigitCount - 2),
         events |-> last.events,
         heldFor |-> DwellMs,
         lastHeld |-> DwellMs,
         sinceLatch |-> [k \in 0..(DigitCount - 1) |-> (DigitCount - k) * DwellMs],
         period |-> DigitCount * DwellMs,
         pulses |-> 16 * DigitCount,
         latches |-> DigitCount,
         sleeps |-> DigitCount,
         sinceSweep |-> DigitCount * DwellMs,
         sweepGap |-> DigitCount * DwellMs]

\* the stopwatch times <<minutes, seconds>> a run starts at
WarmTimes == {<<0, 58>>, <<0, 59>>, <<12, 34>>, <<98, 59>>, <<99, 58>>, <<99, 59>>}

\* the head of the loop, minutes:seconds = m:s shown by the last two sweeps,
\* t ms slept since the last callback (-1: timing left open)
WarmAt(m, s, t) ==
    LET n == m * 100 + s
        frame(k) == <<digitPattern(DigitsOf(n)[k]), digitPos(k - 1)>>
    IN  /\ variant \in {"main", "Task2"}
        /\ seconds = s
        /\ minutes = m
        /\ ticks = 0
        /\ s1 = 1
        /\ pc = "poll"
        /\ stack = <<>>
        /\ rdMinutes = -1
        /\ rdSeconds = -1
        /\ number = n
        /\ showDecimal = FALSE
        /\ decimalPos = -1
        /\ i = DigitCount
        /\ calls = <<frame(1), frame(2), frame(3), frame(4)>>
        /\ segments = frame(4)[1]
        /\ digit = frame(4)[2]
        /\ value = 0
        /\ bit = 0
        /\ hw = AfterSweeps(n)
        /\ tickAt = "none"
        /\ obs = [ObsInit EXCEPT !.sweeps = ObsCap, !.released = ObsCap]
        /\ sinceTick = t
        /\ s3 = 1
        /\ voltage = (IF variant = "Task2" THEN FullScaleMv ELSE 0)
        /\ minVoltage = FullScaleMv
        /\ maxVoltage = (IF variant = "Task2" THEN FullScaleMv ELSE 0)
        /\ twin = [seconds |-> 0, minutes |-> 0]

InitLoop ==
    \/ /\ variant \in {"main", "Task2"}
       /\ seconds = 0
       /\ minutes = 0
       /\ ticks = 0
       /\ pc = "poll"
       /\ Idle
    \/ \E w \in WarmTimes : WarmAt(w[1], w[2], -1)

NextLoop ==
    \/ Poll \/ ResetMinutes \/ ResetSeconds
    \/ ResetSecondsTask2 \/ ResetMinutesTask2 \/ Debounce
    \/ ReadPot \/ TrackVoltage \/ ModeVoltage \/ ModeTime
    \/ ReadMinutes \/ ReadSeconds \/ CallDisplay
    \/ DisplayLoop \/ WriteFrame \/ DisplaySleep
    \/ Tick \/ TickTask2
    \/ PressS1 \/ ReleaseS1 \/ PressS3 \/ ReleaseS3

SpecLoop == InitLoop /\ [][NextLoop]_vars

(***************************************************************************)
(* The main loop of src/main.cpp with the callback on its 1 s period, time *)
(* being counted in the sleeps.  A run starts when the Ticker has just     *)
(* been attached, or at a loop head with the callback due.                 *)
(***************************************************************************)
InitTimed ==
    /\ variant = "main"
    /\ \/ /\ seconds = 0
          /\ minutes = 0
          /\ ticks = 0
          /\ s1 = 1
          /\ pc = "poll"
          /\ stack = <<>>
          /\ rdMinutes = -1
          /\ rdSeconds = -1
          /\ number = 0
          /\ showDecimal = FALSE
          /\ decimalPos = -1
          /\ i = 0
          /\ segments = 0
          /\ digit = 0
          /\ value = 0
          /\ bit = 0
          /\ hw = HwInit
          /\ calls = <<>>
          /\ tickAt = "none"
          /\ obs = ObsInit
          /\ sinceTick = 0
          /\ s3 = 1
          /\ voltage = 0
          /\ minVoltage = FullScaleMv
          /\ maxVoltage = 0
          /\ twin = [seconds |-> 0, minutes |-> 0]
       \/ \E w \in WarmTimes : WarmAt(w[1], w[2], TickPeriodMs)

NextTimed ==
    \/ Poll \/ ResetMinutes \/ ResetSeconds \/ Debounce
    \/ ReadMinutes \/ ReadSeconds \/ CallDisplay
    \/ DisplayLoop \/ WriteFrame \/ DisplaySleep
    \/ Tick \/ PressS1 \/ ReleaseS1

SpecTimed == InitTimed /\ [][NextTimed]_vars

\* C14: in every state of the main loops, between callbacks, seconds is in
\* 0..59 and minutes in 0..99, and so are the values read from them for the
\* argument; every stopwatch value displayNumber is called with, the torn
\* ones included, is in 0..9959 with its two low digits below 60; and every
\* index into digitPattern is in 0..9.
C14_CountersInRange ==
    /\ seconds \in 0..59
    /\ minutes \in 0..99
    /\ rdSeconds \in -1..59
    /\ rdMinutes \in -1..99
    /\ ~showDecimal => (number \in 0..9959 /\ number % 100 < 60)
    /\ \A k \in 1..DigitCount : DigitsOf(number)[k] \in 0..9

C14_TornAtWrap ==
    /\ pc = "dn_sleep"
    /\ obs.torn
    /\ number = 9900
    /\ minutes = 0
    /\ seconds = 0
    /\ ticks = 1

\* C15: the step of the main loop that executes the second of the two reset
\* assignments (seconds in src/main.cpp, minutes in Task2) leaves the
\* counters at (0,0), wherever the timer callback has run before it, between
\* the two assignments included.
C15_ResetClears ==
    [][(pc \in {"reset_seconds", "t2_reset_minutes"} /\ pc' = "debounce")
          => (minutes' = 0 /\ seconds' = 0)]_vars

\* the positions of the main thread inside the reset block, before its sleep
ResetBlock ==
    {"reset_minutes", "reset_seconds", "t2_reset_seconds", "t2_reset_minutes"}

\* C17: every poll that finds the reset button pressed enters the reset
\* block, whether or not the previous poll found it pressed; the block
\* leaves the counters at 0 and sleeps 200 ms; a poll that finds the button
\* released skips the block, and outside the block the main thread never
\* writes the counters; when the sleep is reached again, the sweeps since the
\* previous sleep are one more than the polls that found the button released,
\* exactly one when there was none.
C17_PolledEveryIteration ==
    [][/\ (pc = "poll" /\ pc' # pc) =>
            IF s1 = 0
            THEN pc' = (IF variant = "Task2" THEN "t2_reset_seconds"
                        ELSE "reset_minutes")
            ELSE pc' = AfterReset /\ seconds' = seconds /\ minutes' = minutes
       /\ (pc \in ResetBlock /\ pc' # pc) => pc' \in ResetBlock \cup {"debounce"}
       /\ (pc' = "debounce" /\ pc # pc') => (minutes' = 0 /\ seconds' = 0)
       /\ (pc = "debounce" /\ pc' # pc) =>
            (pc' = AfterReset /\ hw'.heldFor = hw.heldFor + 200)
       /\ (pc \notin ResetBlock /\ ticks' = ticks) =>
            (seconds' = seconds /\ minutes' = minutes)
       /\ (pc = "debounce" /\ obs.locked) =>
            /\ obs.sweeps = UpToCap(1 + obs.released)
            /\ obs.released = 0 => obs.sweeps = 1]_vars

\* C19: in the Task2 main loop the level of the mode button at its poll
\* decides the sweep of that iteration: pressed, displayNumber gets the
\* voltage in hundredths of a volt, truncated, a value in 0..330, and its
\* frames have bit 7 cleared at index 1 only; released, it gets
\* minutes*100+seconds as read and no frame has bit 7 cleared; every frame
\* shows the digit of the value; a change of the mode button and the steps
\* that read the voltage and poll the button leave seconds and minutes as
\* they are; during a voltage sweep the timer callback can run and advances
\* the stopwatch.
C19_ModeDecidesSweep ==
    [][variant = "Task2" =>
        /\ (pc = "mode" /\ pc' # pc) =>
              IF s3 = 0
              THEN /\ pc' = "dn_loop"
                   /\ number' \in 0..330
                   /\ 10 * number' <= voltage /\ voltage < 10 * number' + 10
                   /\ showDecimal' /\ decimalPos' = 1
              ELSE pc' = "eval_arg"
        /\ (pc = "eval_arg" /\ pc' = "dn_loop") =>
              (~showDecimal' /\ number' = rdMinutes * 100 + rdSeconds)
        /\ \A k \in 1..Len(calls') :
              /\ calls'[k][1] % 128 = digitPattern(DigitsOf(number')[k]) % 128
              /\ IF showDecimal' /\ k = 2
                 THEN calls'[k][1] < 128
                 ELSE calls'[k][1] >= 128
        /\ s3' # s3 => (seconds' = seconds /\ minutes' = minutes)
        /\ (pc \in {"read_pot", "track", "mode"} /\ ticks' = ticks) =>
              (seconds' = seconds /\ minutes' = minutes)
        /\ (showDecimal /\ pc \in InsideDisplay /\ ticks' = ticks + 1) =>
              (seconds' # seconds
               /\ minutes' * 60 + seconds'
                  = (minutes * 60 + seconds + 1) % 6000)
        /\ (showDecimal /\ pc \in InsideDisplay /\ ticks < MaxTicks) =>
              ENABLED TickTask2]_vars

C19_VoltageShownWhileTicking ==
    /\ variant = "Task2"
    /\ pc = "poll"
    /\ showDecimal
    /\ number = 245
    /\ calls = <<<<192, 1>>, <<36, 2>>, <<153, 4>>, <<146, 8>>>>
    /\ minutes = 0
    /\ seconds = 1
    /\ ticks = 3

\* C11: when the sweep that has just ended showed a torn value (one that
\* the counters never held while the argument was read), the next sweep
\* begins at most 8 ms after that one began and its value is not torn.
C11_TornForOneSweep ==
    [][(pc = "eval_arg" /\ pc' = "dn_loop" /\ obs.torn)
          => (hw'.sweepGap <= 8 /\ ~obs'.torn)]_vars

====
